---- MODULE Spec2Model ----
(***************************************************************************)
(* A model of scripts/fetch_scholar_metrics.py: one run of main(), the     *)
(* two fetchers, the fallback, the two writers and the process exit, and   *)
(* (under PageSpec) the generated snippet executing in a hosting page.     *)
(*                                                                         *)
(* JSON values that the code reads from a response are modelled with a     *)
(* tag: a key that is missing from a dict (JAbsent), a JSON null (JNull,   *)
(* Python None), an integer (JInt) or a string (JStr).  dict.get(k, d)     *)
(* is Get.  A candidate's name is a sequence of characters, so that the    *)
(* substring test of the scan is computed, not assumed.                    *)
(***************************************************************************)
EXTENDS Integers, Sequences, FiniteSets, TLC

\* ------------------------------------------------------------ bounds
MaxAuthors == 2
MaxPapers == 2
MaxItems == 2

\* ------------------------------------------------------- configuration
GOOGLE_SCHOLAR_ID == "H8fc2JgAAAAJ"
AUTHOR_NAME == "Evangelos-Marios Nikolados"
\* the literal of the scan, "Nikolados", as characters
SURNAME == <<"N", "i", "k", "o", "l", "a", "d", "o", "s">>
SEARCH_URL == "https://api.semanticscholar.org/graph/v1/author/search"
AUTHOR_URL == "https://api.semanticscholar.org/graph/v1/author/"
AUTHOR_FIELDS == "name,hIndex,citationCount,publicationCount,papers.title,papers.citationCount,papers.year,papers.venue,papers.authors"
CROSSREF_URL == "https://api.crossref.org/works"
SEARCH_LIMIT == 5
CROSSREF_ROWS == 100
I10_THRESHOLD == 10
FALLBACK_H_INDEX == 6
FALLBACK_I10_INDEX == 3
FALLBACK_TOTAL_CITATIONS == 124
FALLBACK_PUBLICATIONS_COUNT == 10
TIMER_DELAY_MS == 100

\* ---------------------------------------------------------- JSON values
None == [tag |-> "None"]
JAbsent == [t |-> "absent", v |-> 0]
JNull == [t |-> "null", v |-> 0]
JInt(n) == [t |-> "int", v |-> n]
JStr(s) == [t |-> "str", v |-> s]
JList(s) == [t |-> "list", v |-> s]

\* dict.get(key, default): the default only when the key is missing
Get(x, default) == IF x.t = "absent" THEN default ELSE x

\* Python truth value of a value read from JSON
Truthy(x) ==
    CASE x.t = "absent" -> FALSE
      [] x.t = "null" -> FALSE
      [] x.t = "int" -> x.v # 0
      [] x.t = "str" -> x.v # ""
      [] x.t = "list" -> x.v # <<>>

\* Python truth value of a value-or-None
PyTruthy(x) == x # None /\ Truthy(x)

\* Python truth value of a dict-or-None
DictTruthy(d) == d # None /\ DOMAIN d # {}

\* sub in s, on sequences of characters
Contains(s, sub) ==
    \E i \in 1..(Len(s) - Len(sub) + 1) : SubSeq(s, i, i + Len(sub) - 1) = sub

\* all sequences over S of length at most n
RECURSIVE SeqsUpTo(_, _)
SeqsUpTo(S, n) ==
    IF n = 0 THEN {<<>>}
    ELSE LET shorter == SeqsUpTo(S, n - 1)
         IN  shorter \cup {Append(s, x) : s \in {t \in shorter : Len(t) = n - 1}, x \in S}

\* ----------------------------------------------------- decimal strings
Digits == <<"0", "1", "2", "3", "4", "5", "6", "7", "8", "9">>

RECURSIVE NatToStr(_)
NatToStr(n) == IF n < 10 THEN Digits[n + 1] ELSE NatToStr(n \div 10) \o Digits[(n % 10) + 1]

\* str(n) of a Python int
IntToStr(n) == IF n < 0 THEN "-" \o NatToStr(0 - n) ELSE NatToStr(n)

\* str(x), as an f-string renders a value
PyStr(x) ==
    CASE x.t = "null" -> "None"
      [] x.t = "int" -> IntToStr(x.v)
      [] x.t = "str" -> x.v

\* %m and %d: two digits, zero padded
Pad2(n) == IF n < 10 THEN "0" \o NatToStr(n) ELSE NatToStr(n)

\* datetime.now().strftime("%Y-%m-%d")
Strftime(date) == NatToStr(date.y) \o "-" \o Pad2(date.m) \o "-" \o Pad2(date.d)

\* the dates a run may happen on
Dates == {[y |-> 2025, m |-> 3, d |-> 9], [y |-> 2026, m |-> 11, d |-> 30]}

\* ------------------------------------------------- what the APIs return
\* outcome of requests.get + raise_for_status + response.json
HttpFailures == {"ConnectionError", "HTTPError", "JSONDecodeError"}

NameMatch == JStr(<<"E", ".", " ", "N", "i", "k", "o", "l", "a", "d", "o", "s">>)
NameLower == JStr(<<"e", " ", "n", "i", "k", "o", "l", "a", "d", "o", "s">>)
NameVals == {JAbsent, JNull, NameLower, NameMatch}
IdVals == {JAbsent, JNull, JStr("1741101"), JStr("2056")}
Candidates == [name : NameVals, authorId : IdVals]

\* the "data" entry of the search body
SearchData == {JAbsent, JNull} \cup {JList(s) : s \in SeqsUpTo(Candidates, MaxAuthors)}

FieldVals == {JAbsent, JNull, JInt(-1), JInt(12)}
PaperCounts == {JAbsent, JNull, JInt(9), JInt(10), JInt(11)}
Papers == [citationCount : PaperCounts]
DetailNames == {JAbsent, JStr("E. Nikolados")}
DetailBodies ==
    [name : DetailNames, hIndex : FieldVals, citationCount : FieldVals,
     publicationCount : FieldVals,
     papers : {JAbsent, JNull} \cup {JList(s) : s \in SeqsUpTo(Papers, MaxPapers)}]

ItemCounts == {JAbsent, JNull, JInt(0), JInt(7)}
Items == [is_referenced_by_count : ItemCounts]
CrossrefBodies ==
    [message : {"absent", "null", "dict"},
     items : {JAbsent, JNull} \cup {JList(s) : s \in SeqsUpTo(Items, MaxItems)}]

\* ------------------------------------------------------------- state
VARIABLES
    pc,             \* where main() is
    today,          \* the date datetime.now() gives; a run lies within one day
    metrics,        \* the metrics dict (None until a fetcher or the fallback builds it)
    crossref_data,  \* what fetch_crossref_metrics returned
    json_success,   \* "unset", "True" or "False"
    js_success,     \* "unset", "True" or "False"
    exit_code,      \* {} while running, {n} after sys.exit(n)
    authors,        \* fetch_semantic_scholar_metrics: the candidates of the search
    author_id,      \* fetch_semantic_scholar_metrics: the ID the scan chose
    data,           \* fetch_semantic_scholar_metrics: the body of the detail response
    json_file,      \* scholar_metrics.json
    js_file,        \* scholar_metrics.js
    http,           \* history: the requests issued, in order
    calls,          \* history: the functions main() has called, in order
    primary_result, \* history: what fetch_semantic_scholar_metrics returned
    written,        \* history: the write attempts, each with the record it was given
    readyState,     \* page: document.readyState
    dcl_fired,      \* page: DOMContentLoaded has been dispatched
    snippet,        \* page: "not_run", "run" or "threw"
    listeners,      \* page: the DOMContentLoaded listeners registered
    timers,         \* page: the pending setTimeout callbacks
    applied,        \* page history: each call of updateScholarMetrics
    dom             \* page: element id -> textContent, for the elements that exist

run_vars == <<pc, today, metrics, crossref_data, json_success, js_success, exit_code,
              authors, author_id, data, json_file, js_file, http, calls,
              primary_result, written>>
page_vars == <<readyState, dcl_fired, snippet, listeners, timers, applied, dom>>
vars == <<run_vars, page_vars>>

Pending == [tag |-> "pending"]
OldFile == [tag |-> "old"]
PartialFile == [tag |-> "partial"]

Request(url, params) == [url |-> url, params |-> params]

\* --------------------------------------- fetch_semantic_scholar_metrics
\* ScanAuthors without the break: the last matching candidate decides
RECURSIVE ScanAuthorsNoBreak(_, _)
ScanAuthorsNoBreak(as, i) ==
    IF i > Len(as) THEN [exc |-> "", author_id |-> None]
    ELSE LET name == Get(as[i].name, JStr(<<>>))
             rest == ScanAuthorsNoBreak(as, i + 1)
         IN  IF name.t # "str" THEN [exc |-> "TypeError", author_id |-> None]
             ELSE IF Contains(name.v, SURNAME)
                  THEN IF as[i].authorId.t = "absent"
                       THEN [exc |-> "KeyError", author_id |-> None]
                       ELSE IF rest.exc # "" \/ rest.author_id # None THEN rest
                       ELSE [exc |-> "", author_id |-> as[i].authorId]
                  ELSE rest

\* the scan of the candidates, from candidate i on: the first candidate whose
\* name contains the surname decides; a null name or a missing authorId raises
RECURSIVE ScanAuthors(_, _)
ScanAuthors(as, i) ==
    IF i > Len(as) THEN [exc |-> "", author_id |-> None]
    ELSE LET name == Get(as[i].name, JStr(<<>>))
         IN  IF name.t # "str" THEN [exc |-> "TypeError", author_id |-> None]
             ELSE IF Contains(name.v, SURNAME)
                  THEN IF as[i].authorId.t = "absent"
                       THEN [exc |-> "KeyError", author_id |-> None]
                       ELSE [exc |-> "", author_id |-> as[i].authorId]
                  ELSE ScanAuthors(as, i + 1)

\* the search request, its response and the scan
SearchAuthor(outcome, found) ==
    /\ pc = "primary_search"
    /\ calls' = Append(calls, "fetch_semantic_scholar_metrics")
    /\ http' = Append(http, Request(SEARCH_URL,
                 {<<"query", AUTHOR_NAME>>, <<"limit", IntToStr(SEARCH_LIMIT)>>}))
    /\ IF outcome # "ok"
       THEN /\ pc' = "primary_except"
            /\ UNCHANGED <<authors, author_id>>
       ELSE LET list == Get(found, JList(<<>>))
            IN  /\ authors' = list
                /\ IF list.t # "list"
                   THEN /\ pc' = "primary_except"
                        /\ UNCHANGED author_id
                   ELSE LET scan == ScanAuthors(list.v, 1)
                        IN  /\ author_id' = scan.author_id
                            /\ pc' = IF scan.exc # "" THEN "primary_except"
                                     ELSE "primary_found"
    /\ UNCHANGED <<today, metrics, crossref_data, json_success, js_success, exit_code,
                   data, json_file, js_file, primary_result, written>>
    /\ UNCHANGED page_vars

\* "if not author_id": the warning and return None
NoAuthorId ==
    /\ pc = "primary_found"
    /\ ~PyTruthy(author_id)
    /\ pc' = "crossref"
    /\ metrics' = None
    /\ primary_result' = None
    /\ authors' = None
    /\ author_id' = None
    /\ UNCHANGED <<today, crossref_data, json_success, js_success, exit_code,
                   data, json_file, js_file, http, calls, written>>
    /\ UNCHANGED page_vars

\* the detail request for the chosen ID.  authors and author_id are not read
\* after the URL is built: the model drops them here
RequestDetail ==
    /\ pc = "primary_found"
    /\ PyTruthy(author_id)
    /\ http' = Append(http, Request(AUTHOR_URL \o PyStr(author_id),
                                    {<<"fields", AUTHOR_FIELDS>>}))
    /\ pc' = "primary_detail"
    /\ authors' = None
    /\ author_id' = None
    /\ UNCHANGED <<today, metrics, crossref_data, json_success, js_success, exit_code,
                   data, json_file, js_file, calls, primary_result, written>>
    /\ UNCHANGED page_vars

\* the detail response: raise_for_status and response.json()
ReceiveDetail(outcome, body) ==
    /\ pc = "primary_detail"
    /\ IF outcome # "ok"
       THEN /\ pc' = "primary_except"
            /\ UNCHANGED data
       ELSE /\ data' = body
            /\ pc' = "primary_build"
    /\ UNCHANGED <<today, metrics, crossref_data, json_success, js_success, exit_code,
                   authors, author_id, json_file, js_file, http, calls,
                   primary_result, written>>
    /\ UNCHANGED page_vars

\* CountI10 with "> 10" for ">= 10"
RECURSIVE CountI10Strict(_, _)
CountI10Strict(papers, i) ==
    IF i > Len(papers) THEN 0
    ELSE LET c == Get(papers[i].citationCount, JInt(0))
             rest == CountI10Strict(papers, i + 1)
         IN  IF c.t # "int" \/ rest < 0 THEN -1
             ELSE IF c.v > I10_THRESHOLD THEN rest + 1 ELSE rest

\* the i10 loop over papers[i..]: the count, or -1 when a comparison raises
RECURSIVE CountI10(_, _)
CountI10(papers, i) ==
    IF i > Len(papers) THEN 0
    ELSE LET c == Get(papers[i].citationCount, JInt(0))
             rest == CountI10(papers, i + 1)
         IN  IF c.t # "int" \/ rest < 0 THEN -1
             ELSE IF c.v >= I10_THRESHOLD THEN rest + 1 ELSE rest

\* the metrics dict built from the detail body d with i10 papers counted
PrimaryMetrics(d, i10, date) ==
    [h_index |-> Get(d.hIndex, JInt(0)),
     i10_index |-> JInt(i10),
     total_citations |-> Get(d.citationCount, JInt(0)),
     publications_count |-> Get(d.publicationCount, JInt(0)),
     last_updated |-> JStr(Strftime(date)),
     scholar_id |-> JStr(GOOGLE_SCHOLAR_ID),
     source |-> JStr("Semantic Scholar"),
     author_name |-> Get(d.name, JStr(AUTHOR_NAME))]

\* the i10 loop and the metrics dict
BuildMetrics ==
    /\ pc = "primary_build"
    /\ LET papers == Get(data.papers, JList(<<>>))
           i10 == IF papers.t = "list" THEN CountI10(papers.v, 1) ELSE -1
       IN  IF i10 < 0
           THEN /\ pc' = "primary_except"
                /\ UNCHANGED metrics
           ELSE /\ metrics' = PrimaryMetrics(data, i10, today)
                /\ pc' = "primary_return"
    /\ UNCHANGED <<today, crossref_data, json_success, js_success, exit_code,
                   authors, author_id, data, json_file, js_file, http, calls,
                   primary_result, written>>
    /\ UNCHANGED page_vars

\* "return metrics"
PrimaryReturn ==
    /\ pc = "primary_return"
    /\ primary_result' = metrics
    /\ pc' = "crossref"
    /\ authors' = None
    /\ author_id' = None
    /\ data' = None
    /\ UNCHANGED <<today, metrics, crossref_data, json_success, js_success, exit_code,
                   json_file, js_file, http, calls, written>>
    /\ UNCHANGED page_vars

\* "except Exception": return None
PrimaryExcept ==
    /\ pc = "primary_except"
    /\ metrics' = None
    /\ primary_result' = None
    /\ pc' = "crossref"
    /\ authors' = None
    /\ author_id' = None
    /\ data' = None
    /\ UNCHANGED <<today, crossref_data, json_success, js_success, exit_code,
                   json_file, js_file, http, calls, written>>
    /\ UNCHANGED page_vars

\* ------------------------------------------------ fetch_crossref_metrics
\* the params dict the function builds
CrossrefParams == {<<"query.author", AUTHOR_NAME>>, <<"rows", IntToStr(CROSSREF_ROWS)>>}

\* what requests.get is called with: the URL alone, the params dict is not passed
CrossrefRequest == Request(CROSSREF_URL, {})

\* the sum of is-referenced-by-count over items[i..], or -1 when an addition raises
RECURSIVE SumReferenced(_, _)
SumReferenced(items, i) ==
    IF i > Len(items) THEN 0
    ELSE LET c == Get(items[i].is_referenced_by_count, JInt(0))
             rest == SumReferenced(items, i + 1)
         IN  IF c.t # "int" \/ rest < 0 THEN -1 ELSE c.v + rest

\* the dict fetch_crossref_metrics returns for a response, None when it raises
CrossrefResult(outcome, body) ==
    IF outcome # "ok" \/ body.message = "null" THEN None
    ELSE LET items == IF body.message = "absent" THEN JList(<<>>)
                      ELSE Get(body.items, JList(<<>>))
         IN  IF items.t # "list" THEN None
             ELSE IF SumReferenced(items.v, 1) < 0 THEN None
             ELSE [total_citations_crossref |-> JInt(SumReferenced(items.v, 1)),
                   publications_crossref |-> JInt(Len(items.v))]

FetchCrossref(outcome, body) ==
    /\ pc = "crossref"
    /\ calls' = Append(calls, "fetch_crossref_metrics")
    /\ http' = Append(http, CrossrefRequest)
    /\ crossref_data' = CrossrefResult(outcome, body)
    /\ pc' = "merge"
    /\ UNCHANGED <<today, metrics, json_success, js_success, exit_code,
                   authors, author_id, data, json_file, js_file, primary_result, written>>
    /\ UNCHANGED page_vars

\* ------------------------------------------------------------------ main
\* dict.update: the keys of extra are added to d, replacing d's on a clash
Update(d, extra) == extra @@ d

\* ShouldMerge testing the publication count for truth: no merge when it is 0
ShouldMergeNonZero(c, m) ==
    DictTruthy(c) /\ DictTruthy(m) /\ Truthy(c.publications_crossref)

\* "if crossref_data and metrics"
ShouldMerge(c, m) == DictTruthy(c) /\ DictTruthy(m)

Merge ==
    /\ pc = "merge"
    /\ metrics' = IF ShouldMerge(crossref_data, metrics)
                  THEN Update(metrics, crossref_data) ELSE metrics
    /\ pc' = "fallback_check"
    /\ UNCHANGED <<today, crossref_data, json_success, js_success, exit_code,
                   authors, author_id, data, json_file, js_file, http, calls,
                   primary_result, written>>
    /\ UNCHANGED page_vars

\* get_fallback_metrics with the h-index and the i10-index exchanged
get_fallback_metrics_swapped(date) ==
    [h_index |-> JInt(FALLBACK_I10_INDEX),
     i10_index |-> JInt(FALLBACK_H_INDEX),
     total_citations |-> JInt(FALLBACK_TOTAL_CITATIONS),
     publications_count |-> JInt(FALLBACK_PUBLICATIONS_COUNT),
     last_updated |-> JStr(Strftime(date)),
     scholar_id |-> JStr(GOOGLE_SCHOLAR_ID),
     source |-> JStr("Manual (fallback)"),
     author_name |-> JStr(AUTHOR_NAME)]

get_fallback_metrics(date) ==
    [h_index |-> JInt(FALLBACK_H_INDEX),
     i10_index |-> JInt(FALLBACK_I10_INDEX),
     total_citations |-> JInt(FALLBACK_TOTAL_CITATIONS),
     publications_count |-> JInt(FALLBACK_PUBLICATIONS_COUNT),
     last_updated |-> JStr(Strftime(date)),
     scholar_id |-> JStr(GOOGLE_SCHOLAR_ID),
     source |-> JStr("Manual (fallback)"),
     author_name |-> JStr(AUTHOR_NAME)]

\* NeedsFallback also falling back when CrossRef returned nothing
NeedsFallbackEither(m) == ~DictTruthy(m) \/ crossref_data = None

\* "if not metrics"
NeedsFallback(m) == ~DictTruthy(m)

FallbackIfNeeded ==
    /\ pc = "fallback_check"
    /\ IF NeedsFallback(metrics)
       THEN /\ metrics' = get_fallback_metrics(today)
            /\ calls' = Append(calls, "get_fallback_metrics")
       ELSE UNCHANGED <<metrics, calls>>
    /\ pc' = "save_json"
    /\ UNCHANGED <<today, crossref_data, json_success, js_success, exit_code,
                   authors, author_id, data, json_file, js_file, http,
                   primary_result, written>>
    /\ UNCHANGED page_vars

\* ---------------------------------------------------------- the writers
WriteOutcomes == {"ok", "open_failed", "write_failed"}

\* what a write leaves in the file
FileAfter(old, content, outcome) ==
    CASE outcome = "ok" -> content
      [] outcome = "open_failed" -> old
      [] outcome = "write_failed" -> PartialFile

Success(outcome) == IF outcome = "ok" THEN "True" ELSE "False"

\* metrics.get(key, default) on the metrics dict
MGet(m, key, default) == IF key \in DOMAIN m THEN m[key] ELSE default

\* a value of the snippet's object literal: the text the f-string puts there,
\* bare ({...}) or between double quotes ("{...}")
Bare(s) == [quoted |-> FALSE, text |-> s]
Quoted(s) == [quoted |-> TRUE, text |-> s]

\* the scholarMetrics object literal of the snippet
RenderJs(m) ==
    [tag |-> "js",
     hIndex |-> Bare(PyStr(MGet(m, "h_index", JInt(0)))),
     i10Index |-> Bare(PyStr(MGet(m, "i10_index", JInt(0)))),
     totalCitations |-> Bare(PyStr(MGet(m, "total_citations", JInt(0)))),
     publicationsCount |-> Bare(PyStr(MGet(m, "publications_count", JInt(0)))),
     lastUpdated |-> Quoted(PyStr(m["last_updated"])),
     scholarId |-> Quoted(PyStr(m["scholar_id"])),
     source |-> Quoted(PyStr(MGet(m, "source", JStr("Unknown")))),
     authorName |-> Quoted(PyStr(MGet(m, "author_name", JStr(AUTHOR_NAME))))]

\* json.dump(metrics): the dict as a JSON object
RenderJson(m) == [tag |-> "json", object |-> m]

WriteAttempt(fn, m, outcome) == [fn |-> fn, metrics |-> m, ok |-> outcome = "ok"]

\* save_metrics_to_json ending the writes when its own write fails
save_metrics_to_json_abort(outcome) ==
    /\ pc = "save_json"
    /\ calls' = Append(calls, "save_metrics_to_json")
    /\ written' = Append(written, WriteAttempt("save_metrics_to_json", metrics, outcome))
    /\ json_file' = FileAfter(json_file, RenderJson(metrics), outcome)
    /\ json_success' = Success(outcome)
    /\ pc' = IF outcome = "ok" THEN "create_js" ELSE "exit_check"
    /\ UNCHANGED <<today, metrics, crossref_data, js_success, exit_code,
                   authors, author_id, data, js_file, http, primary_result>>
    /\ UNCHANGED page_vars

save_metrics_to_json(outcome) ==
    /\ pc = "save_json"
    /\ calls' = Append(calls, "save_metrics_to_json")
    /\ written' = Append(written, WriteAttempt("save_metrics_to_json", metrics, outcome))
    /\ json_file' = FileAfter(json_file, RenderJson(metrics), outcome)
    /\ json_success' = Success(outcome)
    /\ pc' = "create_js"
    /\ UNCHANGED <<today, metrics, crossref_data, js_success, exit_code,
                   authors, author_id, data, js_file, http, primary_result>>
    /\ UNCHANGED page_vars

create_javascript_file(outcome) ==
    /\ pc = "create_js"
    /\ calls' = Append(calls, "create_javascript_file")
    /\ written' = Append(written, WriteAttempt("create_javascript_file", metrics, outcome))
    /\ js_file' = FileAfter(js_file, RenderJs(metrics), outcome)
    /\ js_success' = Success(outcome)
    /\ pc' = "exit_check"
    /\ UNCHANGED <<today, metrics, crossref_data, json_success, exit_code,
                   authors, author_id, data, json_file, http, primary_result>>
    /\ UNCHANGED page_vars

\* ExitStatus with "or" for "and"
ExitStatusOr(json_ok, js_ok) == IF json_ok = "True" \/ js_ok = "True" THEN 0 ELSE 1

\* "if json_success and js_success": the exit status
ExitStatus(json_ok, js_ok) == IF json_ok = "True" /\ js_ok = "True" THEN 0 ELSE 1

Exit ==
    /\ pc = "exit_check"
    /\ exit_code' = {ExitStatus(json_success, js_success)}
    /\ pc' = "exited"
    /\ UNCHANGED <<today, metrics, crossref_data, json_success, js_success,
                   authors, author_id, data, json_file, js_file, http, calls,
                   primary_result, written>>
    /\ UNCHANGED page_vars

\* --------------------------------------------------------- one run
PageIdle ==
    /\ readyState = "loading"
    /\ dcl_fired = FALSE
    /\ snippet = "not_run"
    /\ listeners = <<>>
    /\ timers = <<>>
    /\ applied = <<>>
    /\ dom = [id \in {} |-> ""]

Init ==
    /\ pc = "primary_search"
    /\ today \in Dates
    /\ metrics = None
    /\ crossref_data = None
    /\ json_success = "unset"
    /\ js_success = "unset"
    /\ exit_code = {}
    /\ authors = None
    /\ author_id = None
    /\ data = None
    /\ json_file = OldFile
    /\ js_file = OldFile
    /\ http = <<>>
    /\ calls = <<>>
    /\ primary_result = Pending
    /\ written = <<>>
    /\ PageIdle

\* a response that is not read: the request raised, or the status or body was bad
NoBody == JAbsent

\* the responses and write outcomes are drawn once main() is at the call
Next ==
    \/ /\ pc = "primary_search"
       /\ \/ \E outcome \in HttpFailures : SearchAuthor(outcome, NoBody)
          \/ \E found \in SearchData : SearchAuthor("ok", found)
    \/ NoAuthorId
    \/ RequestDetail
    \/ /\ pc = "primary_detail"
       /\ \/ \E outcome \in HttpFailures : ReceiveDetail(outcome, NoBody)
          \/ \E body \in DetailBodies : ReceiveDetail("ok", body)
    \/ BuildMetrics
    \/ PrimaryReturn
    \/ PrimaryExcept
    \/ /\ pc = "crossref"
       /\ \/ \E outcome \in HttpFailures : FetchCrossref(outcome, NoBody)
          \/ \E body \in CrossrefBodies : FetchCrossref("ok", body)
    \/ Merge
    \/ FallbackIfNeeded
    \/ \E outcome \in WriteOutcomes : save_metrics_to_json(outcome)
    \/ \E outcome \in WriteOutcomes : create_javascript_file(outcome)
    \/ Exit

Spec == Init /\ [][Next]_vars

\* ------------------------------------------- the snippet in a hosting page
\* the ids updateScholarMetrics looks up
ElementIds == {"h-index", "citations", "last-updated", "i10-index", "pub-count"}

\* the textContent updateScholarMetrics gives the element id
UpdatedText(id, sm) ==
    CASE id = "h-index" -> "H-index: " \o sm.hIndex.text
      [] id = "citations" -> "Citations: " \o sm.totalCitations.text
      [] id = "last-updated" -> "toLocaleDateString(" \o sm.lastUpdated.text \o ")"
      [] id = "i10-index" -> "i10-index: " \o sm.i10Index.text
      [] id = "pub-count" -> "Publications: " \o sm.publicationsCount.text

\* updateScholarMetrics(): every element that exists gets its text
updateScholarMetrics(d, sm) == [id \in DOMAIN d |-> UpdatedText(id, sm)]

Application(via) == [via |-> via, readyState |-> readyState, dcl_fired |-> dcl_fired]

\* StillLoading testing for 'complete': a listener is registered after the signal
StillLoadingUntilComplete(state) == state # "complete"

\* "if (document.readyState === 'loading')"
StillLoading(state) == state = "loading"

\* the snippet is executed by the page: the readiness test and the setTimeout
RunSnippet ==
    /\ snippet = "not_run"
    /\ js_file.tag = "js"
    /\ snippet' = "run"
    /\ IF StillLoading(readyState)
       THEN /\ listeners' = Append(listeners, "updateScholarMetrics")
            /\ UNCHANGED <<dom, applied>>
       ELSE /\ dom' = updateScholarMetrics(dom, js_file)
            /\ applied' = Append(applied, Application("immediate"))
            /\ UNCHANGED listeners
    /\ timers' = Append(timers, [handler |-> "updateScholarMetrics",
                                 delay |-> TIMER_DELAY_MS])
    /\ UNCHANGED <<readyState, dcl_fired>>
    /\ UNCHANGED run_vars

\* the timer set by the snippet expires, wherever the page is in its loading
TimerFires ==
    /\ timers # <<>>
    /\ timers' = Tail(timers)
    /\ dom' = updateScholarMetrics(dom, js_file)
    /\ applied' = Append(applied, Application("timer"))
    /\ UNCHANGED <<readyState, dcl_fired, snippet, listeners>>
    /\ UNCHANGED run_vars

\* the page gets an element (parsed, or rendered late by the page's own scripts)
RenderElement(id) ==
    /\ id \notin DOMAIN dom
    /\ dom' = [i \in DOMAIN dom \cup {id} |-> IF i = id THEN "" ELSE dom[i]]
    /\ UNCHANGED <<readyState, dcl_fired, snippet, listeners, timers, applied>>
    /\ UNCHANGED run_vars

\* the parser finishes: readyState becomes 'interactive'
ParsingEnds ==
    /\ readyState = "loading"
    /\ readyState' = "interactive"
    /\ UNCHANGED <<dcl_fired, snippet, listeners, timers, applied, dom>>
    /\ UNCHANGED run_vars

\* DOMContentLoaded is dispatched: the listeners registered for it run
DOMContentLoaded ==
    /\ readyState = "interactive"
    /\ ~dcl_fired
    /\ dcl_fired' = TRUE
    /\ IF listeners # <<>>
       THEN /\ dom' = updateScholarMetrics(dom, js_file)
            /\ applied' = Append(applied, [via |-> "DOMContentLoaded",
                                           readyState |-> readyState,
                                           dcl_fired |-> TRUE])
       ELSE UNCHANGED <<dom, applied>>
    /\ listeners' = <<>>
    /\ UNCHANGED <<readyState, snippet, timers>>
    /\ UNCHANGED run_vars

\* the window's load event: readyState becomes 'complete'
WindowLoad ==
    /\ readyState = "interactive"
    /\ dcl_fired
    /\ readyState' = "complete"
    /\ UNCHANGED <<dcl_fired, snippet, listeners, timers, applied, dom>>
    /\ UNCHANGED run_vars

\* the end of a run that used the fallback and wrote both files
FallbackRunDone(date) ==
    /\ pc = "exited"
    /\ today = date
    /\ metrics = get_fallback_metrics(date)
    /\ crossref_data = None
    /\ json_success = "True"
    /\ js_success = "True"
    /\ exit_code = {0}
    /\ authors = None
    /\ author_id = None
    /\ data = None
    /\ json_file = RenderJson(get_fallback_metrics(date))
    /\ js_file = RenderJs(get_fallback_metrics(date))
    /\ http = <<Request(SEARCH_URL, {<<"query", AUTHOR_NAME>>,
                                     <<"limit", IntToStr(SEARCH_LIMIT)>>}),
                CrossrefRequest>>
    /\ calls = <<"fetch_semantic_scholar_metrics", "fetch_crossref_metrics",
                 "get_fallback_metrics", "save_metrics_to_json",
                 "create_javascript_file">>
    /\ primary_result = None
    /\ written = <<WriteAttempt("save_metrics_to_json", get_fallback_metrics(date), "ok"),
                   WriteAttempt("create_javascript_file", get_fallback_metrics(date), "ok")>>

\* a page that includes the written snippet starts to load
PageInit ==
    /\ \E date \in Dates : FallbackRunDone(date)
    /\ PageIdle

PageNext ==
    \/ RunSnippet
    \/ TimerFires
    \/ \E id \in ElementIds : RenderElement(id)
    \/ ParsingEnds
    \/ DOMContentLoaded
    \/ WindowLoad

PageSpec == PageInit /\ [][PageNext]_vars

\* ===================================================== the claims
PrimaryKeys == {"h_index", "i10_index", "total_citations", "publications_count",
                "last_updated", "scholar_id", "source", "author_name"}
CrossrefKeys == {"total_citations_crossref", "publications_crossref"}
CountKeys == {"h_index", "i10_index", "total_citations", "publications_count"}

PrimaryFailed == primary_result = None
PrimarySucceeded == primary_result # Pending /\ primary_result # None
RunDate == JStr(Strftime(today))

\* C1: whenever fetch_semantic_scholar_metrics returned no data, the record given to
\* each writer is the static fallback (6, 3, 124, 10, "Manual (fallback)") stamped
\* with the run date, and has neither CrossRef field, whatever CrossRef returned.
C1_FallbackRecord ==
    /\ PrimaryFailed =>
          \A i \in DOMAIN written :
             /\ DOMAIN written[i].metrics = PrimaryKeys
             /\ written[i].metrics.h_index = JInt(6)
             /\ written[i].metrics.i10_index = JInt(3)
             /\ written[i].metrics.total_citations = JInt(124)
             /\ written[i].metrics.publications_count = JInt(10)
             /\ written[i].metrics.source = JStr("Manual (fallback)")
             /\ written[i].metrics.last_updated = RunDate
             /\ DOMAIN written[i].metrics \cap CrossrefKeys = {}
    /\ (PrimaryFailed /\ pc \in {"exit_check", "exited"}) => Len(written) = 2

\* a fallback run in which CrossRef succeeded, after both writes
C1_Witness ==
    /\ PrimaryFailed
    /\ crossref_data # None
    /\ Len(written) = 2

\* the number of papers of the detail body d with at least ten citations, a missing
\* count being 0
TenOrMore(d) ==
    IF d.papers.t # "list" THEN 0
    ELSE Cardinality({i \in 1..Len(d.papers.v) :
                         /\ d.papers.v[i].citationCount.t = "int"
                         /\ d.papers.v[i].citationCount.v >= 10})

\* the value the record holds for a field of the detail body: the body's, 0 if missing
FromBody(x) == IF x.t = "absent" THEN JInt(0) ELSE x

\* C2: when the primary fetch succeeds, the record it returns has the detail
\* response's hIndex, citationCount and publicationCount and the number of papers
\* with citationCount >= 10 as i10_index, and every write is given those values.
C2_PrimaryValues ==
    /\ pc = "primary_return" =>
          /\ metrics.h_index = FromBody(data.hIndex)
          /\ metrics.total_citations = FromBody(data.citationCount)
          /\ metrics.publications_count = FromBody(data.publicationCount)
          /\ metrics.i10_index = JInt(TenOrMore(data))
    /\ PrimarySucceeded =>
          \A i \in DOMAIN written : \A k \in CountKeys :
             written[i].metrics[k] = primary_result[k]

\* a response with one paper at exactly 10 and one at 9: i10_index is 1
C2_Witness ==
    /\ pc = "primary_return"
    /\ data.papers = JList(<<[citationCount |-> JInt(10)], [citationCount |-> JInt(9)]>>)
    /\ data.hIndex = JInt(12)
    /\ metrics.i10_index = JInt(1)

\* C3: when the primary fetch succeeded, every written record keeps the primary
\* fields unchanged; it has both CrossRef fields, with CrossRef's values, if
\* fetch_crossref_metrics returned data, and neither if it did not.
C3_Supplementary ==
    PrimarySucceeded =>
       \A i \in DOMAIN written :
          /\ \A k \in PrimaryKeys : written[i].metrics[k] = primary_result[k]
          /\ IF crossref_data # None
             THEN /\ DOMAIN written[i].metrics = PrimaryKeys \cup CrossrefKeys
                  /\ \A k \in CrossrefKeys : written[i].metrics[k] = crossref_data[k]
             ELSE DOMAIN written[i].metrics = PrimaryKeys

\* both fetchers succeeded and both writes were attempted
C3_Witness ==
    /\ PrimarySucceeded
    /\ crossref_data # None
    /\ Len(written) = 2
    /\ written[2].metrics.publications_crossref = JInt(2)

\* C4: the exit code is 0 exactly when both writes reported success, and 1 otherwise.
C4_ExitCode ==
    pc = "exited" =>
       /\ Len(written) = 2
       /\ exit_code \in {{0}, {1}}
       /\ (exit_code = {0}) <=> (written[1].ok /\ written[2].ok)

\* the data file was written, the snippet was not: exit code 1
C4_Witness ==
    /\ pc = "exited"
    /\ written[1].ok
    /\ ~written[2].ok
    /\ exit_code = {1}

\* C5: every request to the CrossRef works endpoint carries query.author set to the
\* author name and rows set to 100.
C5_CrossrefParams ==
    \A i \in DOMAIN http :
       http[i].url = CROSSREF_URL =>
          /\ <<"query.author", AUTHOR_NAME>> \in http[i].params
          /\ <<"rows", "100">> \in http[i].params

\* C6: both writes are attempted exactly once, save_metrics_to_json first, with the
\* same record, each reporting its own outcome; after the data-file write, whatever
\* its outcome, main is at the snippet write.
C6_BothWrites ==
    /\ Len(written) <= 2
    /\ Len(written) = 1 =>
          /\ pc = "create_js"
          /\ written[1].fn = "save_metrics_to_json"
    /\ pc \in {"exit_check", "exited"} =>
          /\ Len(written) = 2
          /\ written[1].fn = "save_metrics_to_json"
          /\ written[2].fn = "create_javascript_file"
          /\ written[1].metrics = written[2].metrics
          /\ (json_success = "True") <=> written[1].ok
          /\ (js_success = "True") <=> written[2].ok
          /\ json_success \in {"True", "False"}
          /\ js_success \in {"True", "False"}
          /\ Cardinality({i \in DOMAIN calls : calls[i] = "save_metrics_to_json"}) = 1
          /\ Cardinality({i \in DOMAIN calls : calls[i] = "create_javascript_file"}) = 1

\* the data-file write failed and the snippet write was made, and succeeded
C6_Witness ==
    /\ pc = "exited"
    /\ ~written[1].ok
    /\ written[2].ok
    /\ json_file # RenderJson(metrics)
    /\ js_file = RenderJs(metrics)

NonNegativeInt(x) == x.t = "int" /\ x.v >= 0

\* C7: at every write attempt the four counts of the record are integers >= 0 and
\* last_updated is the run date, and the merge-or-fallback decision has been made.
C7_FullyFormed ==
    /\ \A i \in DOMAIN written :
          /\ \A k \in CountKeys :
                /\ k \in DOMAIN written[i].metrics
                /\ NonNegativeInt(written[i].metrics[k])
          /\ written[i].metrics.last_updated = RunDate
    /\ written # <<>> => pc \in {"create_js", "exit_check", "exited"}

CallCount(fn) == Cardinality({i \in DOMAIN calls : calls[i] = fn})
AfterFetches == {"merge", "fallback_check", "save_json", "create_js", "exit_check", "exited"}
AfterDecision == {"save_json", "create_js", "exit_check", "exited"}

\* C8: main calls the primary fetcher first and the secondary fetcher second, each
\* exactly once whatever the primary returned; the fallback is used exactly when
\* the primary returned nothing, whatever the secondary returned; and the run never
\* stops before the exit: it ends with both writes attempted.
C8_Sequencing ==
    /\ Len(calls) >= 1 => calls[1] = "fetch_semantic_scholar_metrics"
    /\ Len(calls) >= 2 => calls[2] = "fetch_crossref_metrics"
    /\ CallCount("fetch_semantic_scholar_metrics") <= 1
    /\ CallCount("fetch_crossref_metrics") <= 1
    /\ primary_result # Pending <=> pc \in {"crossref"} \cup AfterFetches
    /\ pc \in AfterFetches => Len(calls) >= 2
    /\ pc \in AfterDecision =>
          (CallCount("get_fallback_metrics") = 1 <=> PrimaryFailed)
    /\ CallCount("get_fallback_metrics") = 1 => PrimaryFailed
    /\ pc # "exited" => ENABLED Next
    /\ pc = "exited" => Len(written) = 2

\* the primary succeeded, the secondary failed: no fallback, both writes attempted
C8_Witness ==
    /\ pc = "exited"
    /\ PrimarySucceeded
    /\ crossref_data = None
    /\ CallCount("get_fallback_metrics") = 0
    /\ Len(written) = 2

NameHasSurname(c) == c.name.t = "str" /\ Contains(c.name.v, SURNAME)
Matching(as) == {i \in 1..Len(as) : NameHasSurname(as[i])}
FirstMatching(as) == CHOOSE i \in Matching(as) : \A j \in Matching(as) : i <= j
\* no candidate before the i-th has a null name, on which the scan raises
ScanReaches(as, i) == \A j \in 1..(i - 1) : as[j].name.t # "null"
UsableId(x) == x.t = "str" /\ x.v # ""
Selectable(as) ==
    /\ Matching(as) # {}
    /\ ScanReaches(as, FirstMatching(as))
    /\ UsableId(as[FirstMatching(as)].authorId)
\* the search body has been read and scanned, and no detail request issued yet
Scanned ==
    /\ pc \in {"primary_found", "primary_except"}
    /\ authors # None
    /\ authors.t = "list"
DetailRequestFor(id) == Request(AUTHOR_URL \o id.v, {<<"fields", AUTHOR_FIELDS>>})

\* C9 as amended: after the scan, the next step is the detail request for the ID of
\* the first candidate whose name contains the surname, if there is one, the scan
\* reaches it without raising and its authorId is a non-empty string; otherwise the
\* fetch issues no detail request and returns no data.
C9_FirstMatch ==
    [][Scanned =>
          IF Selectable(authors.v)
          THEN /\ pc' = "primary_detail"
               /\ http' = Append(http,
                     DetailRequestFor(authors.v[FirstMatching(authors.v)].authorId))
          ELSE /\ pc' = "crossref"
               /\ http' = http
               /\ primary_result' = None]_vars

\* two candidates match: the scan has chosen the first one's ID, not the second's
C9_Witness ==
    /\ pc = "primary_found"
    /\ authors = JList(<<[name |-> NameMatch, authorId |-> JStr("2056")],
                         [name |-> NameMatch, authorId |-> JStr("1741101")]>>)
    /\ author_id = JStr("2056")

\* C9 as stated, for candidates that carry a non-empty authorId: after the scan, the
\* next step is the detail request for the ID of the first candidate whose name
\* contains the surname, whenever there is one; with none, the fetch issues no detail
\* request and returns no data.
C9_Original ==
    [][Scanned =>
          /\ (/\ Matching(authors.v) # {}
              /\ UsableId(authors.v[FirstMatching(authors.v)].authorId)) =>
                /\ pc' = "primary_detail"
                /\ http' = Append(http,
                      DetailRequestFor(authors.v[FirstMatching(authors.v)].authorId))
          /\ Matching(authors.v) = {} =>
                /\ pc' = "crossref"
                /\ http' = http
                /\ primary_result' = None]_vars

Applications(via) == {i \in DOMAIN applied : applied[i].via = via}
PastLoading(a) == a.readyState # "loading"

\* C10 as amended: once the snippet has run, updateScholarMetrics is applied either
\* at once (the document was past loading) or by the DOMContentLoaded listener, never
\* both; the timer applies it once more, at any point of the page's loading; and once
\* DOMContentLoaded has been dispatched at least one application was made past
\* loading.
C10_Applications ==
    /\ snippet = "not_run" => applied = <<>> /\ listeners = <<>> /\ timers = <<>>
    /\ snippet = "run" =>
          /\ Cardinality(Applications("immediate"))
                + Cardinality(Applications("DOMContentLoaded")) + Len(listeners) = 1
          /\ Cardinality(Applications("timer")) + Len(timers) = 1
          /\ dcl_fired => \E i \in DOMAIN applied : PastLoading(applied[i])
    /\ \A i \in Applications("immediate") : PastLoading(applied[i])
    /\ \A i \in Applications("DOMContentLoaded") :
          applied[i].readyState = "interactive" /\ applied[i].dcl_fired
    /\ \A id \in DOMAIN dom :
          dom[id] # "" => applied # <<>> /\ dom[id] = UpdatedText(id, js_file)

\* the timer fired while the document was loading; the listener applied the update
\* at DOMContentLoaded to an element rendered by then
C10_Witness ==
    /\ Len(applied) = 2
    /\ applied[1].via = "timer"
    /\ applied[1].readyState = "loading"
    /\ applied[2].via = "DOMContentLoaded"
    /\ "h-index" \in DOMAIN dom
    /\ dom["h-index"] = "H-index: 6"

\* C10 as stated: the same, and every timer-driven application is made after the
\* page has loaded.
C10_Original ==
    /\ C10_Applications
    /\ \A i \in Applications("timer") : PastLoading(applied[i])

====
